---- MODULE Spec2Model ----
(***************************************************************************)
(* A model of the Gmail agent: the mail client (src/src/gmail_service.py), *)
(* its message normalizer, the three agent tools (src/src/agent.py) and    *)
(* the command-line session that drives them (src/src/main.py).            *)
(*                                                                         *)
(* Text is a sequence of Unicode code points.  The "data" field of a       *)
(* provider body is a sequence of base64 symbols: 0..63 is the digit the    *)
(* character stands for ('A'..'Z', 'a'..'z', '0'..'9', then 62 for '-' or  *)
(* '+' and 63 for '_' or '/': urlsafe_b64decode translates '-' and '_' to  *)
(* '+' and '/' before decoding, so both spellings are the same digit), Pad *)
(* is '=', Junk is an ASCII character that is neither a digit in either    *)
(* spelling nor '=' (such as '!', '.' or a newline) and NonAscii is a      *)
(* non-ASCII character.                                                    *)
(***************************************************************************)
EXTENDS Integers, Sequences, FiniteSets, TLC

VARIABLES
    \* the normalizer's harness (SpecBody)
    rawMessage,   \* the provider message handed to _parse_message
    plainText,    \* the text the provider encoded, or NoText
    normalized,   \* NotRun, or the outcome of _parse_message
    \* the environment of the mail client
    tokenStore,   \* the persisted token file: NoToken or a credentials record
    secretFile,   \* whether the client-secret file exists
    mailbox,      \* the provider's messages, newest first
    \* GmailService
    service,      \* self.service is set: a session is active
    credentials,  \* self.credentials: NoToken or a credentials record
    authRuns,     \* one record per execution of authenticate(), oldest first
    \* the command-line session (main.py) and one agent turn (GmailAgent.chat)
    session,      \* where _chat_async stands
    interactive,  \* the --interactive flag
    turn,         \* the agent loop's state, iteration count and tool calls
    observation,  \* the last tool result fed back to the backend, or NotRun
    \* the tool call in progress
    call,         \* the tool's name and arguments, or NotRun
    listing,      \* the ids list_messages returned
    slots,        \* per position of listing: NotRun or get_message's email
    order,        \* positions of listing in fetch-completion order
    \* direct users of GmailService (tests), and the provider's script
    tasks,        \* concurrent list_messages / get_message calls
    script        \* NotRun, or what a scripted provider does (SpecTools)

bodyVars == <<rawMessage, plainText, normalized>>
envVars == <<tokenStore, secretFile, mailbox>>
clientVars == <<service, credentials, authRuns>>
agentVars == <<session, interactive, turn, observation>>
callVars == <<call, listing, slots, order>>

vars == <<rawMessage, plainText, normalized, tokenStore, secretFile, mailbox,
          service, credentials, authRuns, session, interactive, turn,
          observation, call, listing, slots, order, tasks, script>>

----------------------------------------------------------------------------
(* Generic helpers *)

Min2(a, b) == IF a <= b THEN a ELSE b

SetMax(S) == CHOOSE x \in S : \A y \in S : y <= x

SetMin(S) == CHOOSE x \in S : \A y \in S : x <= y

Indices(s) == [i \in 1..Len(s) |-> i]

\* Python's s[:n] for n >= 0.
Take(s, n) == SubSeq(s, 1, Min2(n, Len(s)))

NotRun == [kind |-> "not_run"]
NoText == [known |-> FALSE]
NoToken == [present |-> FALSE]
\* A token file that exists but is not an authorized-user file (not JSON, or
\* without the fields from_authorized_user_file requires).
BadToken == [present |-> TRUE, loads |-> FALSE]

----------------------------------------------------------------------------
(* base64.urlsafe_b64decode(data), non-strict, as binascii.a2b_base64 scans *)
(*                                                                          *)
(* What a pad before the end of the data does depends on the interpreter:   *)
(* CPython up to 3.13.0 stops the scan at a pad that completes a quad and   *)
(* ignores what follows ("stop"); later releases skip a pad that digits     *)
(* follow and check the padding at the end of the data only ("skip").  The  *)
(* program does not fix its interpreter, so every decoding is done under    *)
(* either rule.                                                             *)

PadRules == {"stop", "skip"}

Pad == 64
Junk == 65
NonAscii == 66

IsData(c) == c \in 0..63

\* Positions of the digits; Pad and Junk are not digits, and Junk is skipped.
DataIdx(s) == SelectSeq(Indices(s), LAMBDA i : IsData(s[i]))

\* The pads between the k-th alphabet symbol and the next one (or the end).
GapPads(s, idx, k) ==
    LET lo == idx[k] + 1
        hi == IF k < Len(idx) THEN idx[k + 1] - 1 ELSE Len(s)
    IN  Cardinality({p \in lo..hi : s[p] = Pad})

\* Under "stop" the scan stops at a pad that completes a quad: after k
\* digits with k % 4 = 2 at the second pad, with k % 4 = 3 at the first.
StopPoints(s, idx) ==
    {k \in 1..Len(idx) : k % 4 \in {2, 3} /\ GapPads(s, idx, k) >= 4 - (k % 4)}

\* The bytes of the first k alphabet symbols v[1..k].
QuadBytes(v, k) ==
    LET n == (k \div 4) * 3 + (IF k % 4 = 2 THEN 1 ELSE IF k % 4 = 3 THEN 2 ELSE 0)
    IN  [j \in 1..n |->
            LET g == 4 * ((j - 1) \div 3)
                r == (j - 1) % 3
            IN  IF r = 0 THEN v[g + 1] * 4 + (v[g + 2] \div 16)
                ELSE IF r = 1 THEN (v[g + 2] % 16) * 16 + (v[g + 3] \div 4)
                ELSE (v[g + 3] % 4) * 64 + v[g + 4]]

\* Under "skip" the digits left over at the end are accepted when the pads
\* after the last digit complete their quad.
EndPadded(s, idx) ==
    LET n == Len(idx)
    IN  n % 4 \in {2, 3} /\ GapPads(s, idx, n) >= 4 - (n % 4)

B64Decode(s, padRule) ==
    IF \E i \in 1..Len(s) : s[i] = NonAscii
    THEN [ok |-> FALSE, err |-> "ValueError", bytes |-> <<>>]
    ELSE LET idx == DataIdx(s)
             v == [j \in 1..Len(idx) |-> s[idx[j]]]
             stops == StopPoints(s, idx)
         IN  IF padRule = "stop" /\ stops # {}
             THEN [ok |-> TRUE, err |-> "", bytes |-> QuadBytes(v, SetMin(stops))]
             ELSE IF Len(idx) % 4 = 0 \/ (padRule = "skip" /\ EndPadded(s, idx))
             THEN [ok |-> TRUE, err |-> "", bytes |-> QuadBytes(v, Len(idx))]
             ELSE [ok |-> FALSE, err |-> "binascii.Error", bytes |-> <<>>]

----------------------------------------------------------------------------
(* bytes.decode("utf-8"), strict *)

IsCont(b) == b \in 128..191

\* Length of the sequence a byte starts; 0 for a byte that starts none.
Utf8Len(b) ==
    IF b < 128 THEN 1
    ELSE IF b \in 194..223 THEN 2
    ELSE IF b \in 224..239 THEN 3
    ELSE IF b \in 240..244 THEN 4
    ELSE 0

SecondOk(lead, b) ==
    IF lead = 224 THEN b \in 160..191
    ELSE IF lead = 237 THEN b \in 128..159
    ELSE IF lead = 240 THEN b \in 144..191
    ELSE IF lead = 244 THEN b \in 128..143
    ELSE IsCont(b)

Utf8StartOk(bs, i) ==
    LET n == Utf8Len(bs[i])
    IN  /\ n >= 1
        /\ i + n - 1 <= Len(bs)
        /\ \A j \in 1..(n - 1) : IsCont(bs[i + j])
        /\ n >= 2 => SecondOk(bs[i], bs[i + 1])

Utf8ContOk(bs, i) ==
    /\ IsCont(bs[i])
    /\ \E d \in 1..3 :
          /\ i - d >= 1
          /\ Utf8Len(bs[i - d]) > d
          /\ \A j \in 1..(d - 1) : IsCont(bs[i - j])

Utf8Valid(bs) == \A i \in 1..Len(bs) : Utf8StartOk(bs, i) \/ Utf8ContOk(bs, i)

CodePoint(bs, i) ==
    LET n == Utf8Len(bs[i])
    IN  IF n = 1 THEN bs[i]
        ELSE IF n = 2 THEN (bs[i] - 192) * 64 + (bs[i + 1] - 128)
        ELSE IF n = 3
        THEN (bs[i] - 224) * 4096 + (bs[i + 1] - 128) * 64 + (bs[i + 2] - 128)
        ELSE (bs[i] - 240) * 262144 + (bs[i + 1] - 128) * 4096
             + (bs[i + 2] - 128) * 64 + (bs[i + 3] - 128)

Utf8Decode(bs) ==
    IF ~Utf8Valid(bs)
    THEN [ok |-> FALSE, err |-> "UnicodeDecodeError", text |-> <<>>]
    ELSE LET starts == SelectSeq(Indices(bs), LAMBDA i : Utf8Len(bs[i]) >= 1)
         IN  [ok |-> TRUE, err |-> "",
              text |-> [k \in 1..Len(starts) |-> CodePoint(bs, starts[k])]]

\* base64.urlsafe_b64decode(data).decode("utf-8")
DecodeData(data, padRule) ==
    LET b == B64Decode(data, padRule)
    IN  IF ~b.ok THEN [ok |-> FALSE, err |-> b.err, text |-> <<>>]
        ELSE Utf8Decode(b.bytes)

----------------------------------------------------------------------------
(* GmailService._extract_body and GmailService._parse_message *)

BodyLimit == 1000

PlainType == "text/plain"

\* part["body"].get("data", "")
BodyData(holder) == IF "data" \in DOMAIN holder.body THEN holder.body.data ELSE <<>>

\* What the loop does with one part: pass over it, or decode its data.
PartVisit(part, padRule) ==
    IF part.mimeType # PlainType \/ BodyData(part) = <<>>
    THEN [kind |-> "skip"]
    ELSE LET d == DecodeData(BodyData(part), padRule)
         IN  IF d.ok THEN [kind |-> "hit", text |-> d.text]
             ELSE [kind |-> "raise", err |-> d.err]

\* body = "" unless the loop reaches a text/plain part with data: the first
\* such part ends the loop, with its text or with the decoder's exception.
DecodedBody(payload, padRule) ==
    IF "parts" \in DOMAIN payload
    THEN LET stops == {i \in 1..Len(payload.parts) :
                          PartVisit(payload.parts[i], padRule).kind # "skip"}
         IN  IF stops = {} THEN [kind |-> "hit", text |-> <<>>]
             ELSE PartVisit(payload.parts[SetMin(stops)], padRule)
    ELSE IF payload.mimeType = PlainType /\ BodyData(payload) # <<>>
    THEN PartVisit(payload, padRule)
    ELSE [kind |-> "hit", text |-> <<>>]

\* A normalizer that returns the decoded body whole.
TruncateNever(text) == text

\* return body[:1000]
Truncate(text) == Take(text, BodyLimit)

ExtractBody(payload, padRule) ==
    LET d == DecodedBody(payload, padRule)
    IN  IF d.kind = "raise" THEN d
        ELSE [kind |-> "ok", text |-> Truncate(d.text)]

\* headers.get(name, default) on {h["name"]: h["value"] for h in headers}:
\* the last occurrence of a name wins.
HeaderGet(payload, name, default) ==
    LET hs == IF "headers" \in DOMAIN payload THEN payload.headers ELSE <<>>
        at == {i \in 1..Len(hs) : hs[i].name = name}
    IN  IF at = {} THEN default
        ELSE hs[CHOOSE i \in at : \A j \in at : j <= i].value

ParseMessage(message, padRule) ==
    LET b == ExtractBody(message.payload, padRule)
    IN  IF b.kind = "raise" THEN b
        ELSE [kind |-> "ok",
              email |-> [id |-> message.id,
                         thread_id |-> message.threadId,
                         subject |-> HeaderGet(message.payload, "Subject", "No Subject"),
                         sender |-> HeaderGet(message.payload, "From", "Unknown"),
                         recipient |-> HeaderGet(message.payload, "To", "Unknown"),
                         body |-> b.text,
                         date |-> HeaderGet(message.payload, "Date", "Unknown"),
                         labels |-> IF "labelIds" \in DOMAIN message
                                    THEN message.labelIds ELSE <<>>]]

----------------------------------------------------------------------------
(* Provider payloads handed to the normalizer *)

MaxDataLen == 5     \* every data string of up to this many symbols is tried
MaxParts == 2       \* parts of a multi-part payload
Margin == 2         \* body lengths tried on either side of BodyLimit

\* The provider's encoding of a byte string: base64url with padding.
B64Encode(bs) ==
    LET n == Len(bs)
        full == n \div 3
        rest == n % 3
        m == 4 * (full + (IF rest = 0 THEN 0 ELSE 1))
        byte(j) == IF j <= n THEN bs[j] ELSE 0
    IN  [k \in 1..m |->
            LET g == (k - 1) \div 4
                r == (k - 1) % 4
                b1 == byte(3 * g + 1)
                b2 == byte(3 * g + 2)
                b3 == byte(3 * g + 3)
            IN  IF r = 0 THEN b1 \div 4
                ELSE IF r = 1 THEN (b1 % 4) * 16 + (b2 \div 16)
                ELSE IF r = 2
                THEN (IF 3 * g + 2 > n THEN Pad ELSE (b2 % 16) * 4 + (b3 \div 64))
                ELSE (IF 3 * g + 3 > n THEN Pad ELSE b3 % 64)]

\* n letters "abcabc...", n letters "ééé..." and n characters of
\* "é€a\U0001F600é€a...": one, two and one to four bytes each.
AsciiText(n) == [i \in 1..n |-> 97 + ((i - 1) % 3)]
AccentText(n) == [i \in 1..n |-> 233]
MixedText(n) ==
    [i \in 1..n |-> IF i % 4 = 1 THEN 233 ELSE IF i % 4 = 2 THEN 8364
                    ELSE IF i % 4 = 3 THEN 97 ELSE 128512]

\* The number of bytes of a code point's UTF-8 encoding.
Utf8Width(c) == IF c < 128 THEN 1 ELSE IF c < 2048 THEN 2 ELSE IF c < 65536 THEN 3 ELSE 4

\* The k-th byte of a code point's UTF-8 encoding.
Utf8Byte(c, k) ==
    LET w == Utf8Width(c)
        shift == IF k = w THEN 1 ELSE IF k = w - 1 THEN 64
                 ELSE IF k = w - 2 THEN 4096 ELSE 262144
    IN  IF w = 1 THEN c
        ELSE IF k = 1
        THEN (IF w = 2 THEN 192 ELSE IF w = 3 THEN 224 ELSE 240) + (c \div shift)
        ELSE 128 + ((c \div shift) % 64)

\* text.encode("utf-8"), for a text without surrogates: each code point in
\* its own one to four bytes.
Utf8Encode(text) ==
    LET slot(p) ==
            LET c == text[((p - 1) \div 4) + 1]
                k == ((p - 1) % 4) + 1
            IN  IF k <= Utf8Width(c) THEN Utf8Byte(c, k) ELSE -1
    IN  SelectSeq([p \in 1..(4 * Len(text)) |-> slot(p)], LAMBDA b : b >= 0)

TextLengths == 0..2 \cup ((BodyLimit - Margin)..(BodyLimit + Margin))
Texts == {AsciiText(n) : n \in TextLengths} \cup {AccentText(n) : n \in TextLengths}
         \cup {MixedText(n) : n \in TextLengths}

DataSymbols == {24, 16, 63, Pad, Junk, NonAscii}
\* Every sequence of up to n elements of S.
SeqsUpTo(S, n) == UNION {[1..k -> S] : k \in 0..n}

StdHeaders == << [name |-> "Subject", value |-> "Hi"],
                 [name |-> "From", value |-> "a@x.com"] >>

Part(mime, data) == [mimeType |-> mime, body |-> [size |-> Len(data), data |-> data]]
PartNoData(mime) == [mimeType |-> mime, body |-> [size |-> 0]]

SinglePart(mime, data) ==
    [headers |-> StdHeaders, mimeType |-> mime,
     body |-> [size |-> Len(data), data |-> data]]
MultiPart(parts) ==
    [headers |-> StdHeaders, mimeType |-> "multipart/alternative",
     body |-> [size |-> 0], parts |-> parts]

PartSamples ==
    { Part("text/html", <<15, 6, 60, 43>>),          \* "<p>"
      Part("Text/Plain", <<24, 16, Pad, Pad>>),      \* "a", other spelling
      PartNoData(PlainType),
      PartNoData("multipart/mixed"),
      Part(PlainType, <<>>),
      Part(PlainType, <<24, 16, Pad, Pad>>),         \* "a"
      Part(PlainType, <<24, 38, Pad, Pad>>),         \* "b"
      Part(PlainType, <<24>>),                       \* one symbol: bad length
      Part(PlainType, <<63, 48, Pad, Pad>>) }        \* byte 255: not UTF-8

Message(payload) == [id |-> 1, threadId |-> 1, payload |-> payload,
                     labelIds |-> <<"INBOX">>]

\* (message, the text the provider encoded) pairs
EncodedInputs ==
    {<<Message(SinglePart(PlainType, B64Encode(Utf8Encode(t)))), [known |-> TRUE, text |-> t]>>
        : t \in Texts}
    \cup
    {<<Message(MultiPart(<<Part("text/html", <<15, 6, 60, 43>>),
                           Part(PlainType, B64Encode(Utf8Encode(t)))>>)),
       [known |-> TRUE, text |-> t]>> : t \in Texts}


\* The parts of the state a harness does not use.
BodyIdle == rawMessage = NotRun /\ plainText = NoText /\ normalized = NotRun
EnvIdle == tokenStore = NoToken /\ secretFile = FALSE /\ mailbox = <<>>
ClientIdle == service = FALSE /\ credentials = NoToken /\ authRuns = <<>>
AgentIdle ==
    /\ session = "none" /\ interactive = FALSE
    /\ turn = [state |-> "Idle", iterations |-> 0, toolCalls |-> 0, final |-> FALSE]
    /\ observation = NotRun
CallIdle == call = NotRun /\ listing = <<>> /\ slots = <<>> /\ order = <<>>
TasksIdle == tasks = <<>>
ScriptIdle == script = NotRun

\* The provider's message is the encoding of a known text, or carries any
\* data string of up to MaxDataLen symbols under either media type, or up
\* to MaxParts of the sample parts, or no data at all.
BodyInit ==
    /\ \/ \E in \in EncodedInputs :
             /\ rawMessage = in[1]
             /\ plainText = in[2]
       \/ /\ \E k \in 0..MaxDataLen :
                \E d \in [1..k -> DataSymbols] :
                   \E mime \in {PlainType, "text/html"} :
                      rawMessage = Message(SinglePart(mime, d))
          /\ plainText = NoText
       \/ /\ \E ps \in SeqsUpTo(PartSamples, MaxParts) :
                rawMessage = Message(MultiPart(ps))
          /\ plainText = NoText
       \/ /\ rawMessage = Message([mimeType |-> PlainType, body |-> [size |-> 0]])
          /\ plainText = NoText
    /\ normalized = NotRun
    /\ EnvIdle /\ ClientIdle /\ AgentIdle /\ CallIdle /\ TasksIdle /\ ScriptIdle

\* _parse_message(message)
Normalize ==
    /\ normalized = NotRun
    /\ \E padRule \in PadRules :
          normalized' = ParseMessage(rawMessage, padRule)
    /\ UNCHANGED <<rawMessage, plainText, envVars, clientVars, agentVars, callVars,
                   tasks, script>>

BodyNext == Normalize

SpecBody == BodyInit /\ [][BodyNext]_vars

----------------------------------------------------------------------------
(* GmailService.authenticate *)

\* `creds` is a Credentials object: the token file existed and was loaded, or
\* a refresh or a consent flow produced it.
Loaded(c) == c.present /\ c # BadToken

\* creds.valid: an access token that has not expired.
Valid(c) == Loaded(c) /\ c.token /\ ~c.expired

\* The credentials a completed consent flow or refresh yields.
FreshCreds == [present |-> TRUE, token |-> TRUE, expired |-> FALSE, refresh |-> TRUE]
Refreshed(c) == [c EXCEPT !.token = TRUE, !.expired = FALSE]

\* What the token path can hold when authenticate() starts: no file, a file
\* that cannot be loaded, or the credentials a loadable file holds.
TokenStores ==
    {NoToken, BadToken} \cup
    {[present |-> TRUE, token |-> t, expired |-> e, refresh |-> r] :
        t \in BOOLEAN, e \in BOOLEAN, r \in BOOLEAN}

AuthRun(before, result, creds, refreshTried, granted, wrote) ==
    [before |-> before, result |-> result, creds |-> creds,
     refreshTried |-> refreshTried, granted |-> granted, wrote |-> wrote,
     after |-> IF wrote THEN creds ELSE before]

\* One execution of authenticate() on the token file `store`; refreshOk and
\* grantOk are what creds.refresh and flow.run_local_server would do.  The
\* load of an existing token file is not guarded: when it raises, ValueError
\* leaves authenticate() before the valid/refresh/grant decision is made.
Authenticate(store, secret, refreshOk, grantOk) ==
    IF store = BadToken
    THEN AuthRun(store, "ValueError", NoToken, FALSE, FALSE, FALSE)
    ELSE IF Valid(store)
    THEN AuthRun(store, "ok", store, FALSE, FALSE, FALSE)
    ELSE IF store.present /\ store.expired /\ store.refresh
    THEN IF refreshOk
         THEN AuthRun(store, "ok", Refreshed(store), TRUE, FALSE, TRUE)
         ELSE AuthRun(store, "RefreshError", NoToken, TRUE, FALSE, FALSE)
    ELSE IF ~secret
    THEN AuthRun(store, "FileNotFoundError", NoToken, FALSE, FALSE, FALSE)
    ELSE IF grantOk
    THEN AuthRun(store, "ok", FreshCreds, FALSE, TRUE, TRUE)
    ELSE AuthRun(store, "FlowError", NoToken, FALSE, TRUE, FALSE)

\* An authenticate() that stores the credentials but builds no service.
ApplyAuthNoSession(run) ==
    /\ authRuns' = Append(authRuns, run)
    /\ tokenStore' = run.after
    /\ IF run.result = "ok"
       THEN credentials' = run.creds /\ UNCHANGED service
       ELSE UNCHANGED <<credentials, service>>

\* The effect of one authenticate() on the client and the token file.
ApplyAuth(run) ==
    /\ authRuns' = Append(authRuns, run)
    /\ tokenStore' = run.after
    /\ IF run.result = "ok"
       THEN credentials' = run.creds /\ service' = TRUE
       ELSE UNCHANGED <<credentials, service>>

\* A caller that authenticates whether or not a session is active.
EnsureSessionAlways(run) == ApplyAuth(run)

\* `if not self.service: await self.authenticate()`: authenticate() has no
\* suspension point, so the check and the call are one step of the caller.
EnsureSession(run) ==
    IF service THEN UNCHANGED <<clientVars, tokenStore>> ELSE ApplyAuth(run)

\* Whether the caller goes on after EnsureSession.
SessionOk(run) == service \/ run.result = "ok"

----------------------------------------------------------------------------
(* The provider: messages.list and messages.get *)

MaxMailbox == 2     \* messages the provider holds in the stepwise harnesses

Senders == <<"a@x.com", "b@x.com">>

\* The text of the i-th newest message: its own letter, one to three times.
InboxText(i) == [k \in 1..(1 + (i % 3)) |-> 96 + i]

\* The i-th newest message of the provider.
Inbox(i) ==
    [id |-> i, threadId |-> i,
     labelIds |-> <<"INBOX">>,
     payload |-> [headers |-> << [name |-> "Subject", value |-> "Hi"],
                                 [name |-> "From", value |-> Senders[1 + (i % 2)]],
                                 [name |-> "Date", value |-> "Mon" ] >>,
                  mimeType |-> PlainType,
                  body |-> [size |-> 1 + (i % 3),
                            data |-> B64Encode(InboxText(i))]]]

Mailbox(n) == [i \in 1..n |-> Inbox(i)]

Queries == {"", "a@x.com"}

\* The empty query lists everything; any other names a sender.
Matches(query, message) ==
    query = "" \/ HeaderGet(message.payload, "From", "") = query

Refs(box, query) ==
    LET hits == SelectSeq(box, LAMBDA m : Matches(query, m))
    IN  [i \in 1..Len(hits) |-> [id |-> hits[i].id]]

ProviderFailure == [error |-> "HttpError"]

ListResponse(refs) ==
    IF refs = <<>> THEN [resultSizeEstimate |-> 0]
    ELSE [resultSizeEstimate |-> Len(refs), messages |-> refs]

\* What messages.list(q, maxResults) may answer: a failure, or the first
\* maxResults references; for a maxResults below 1 the provider's answer is
\* not defined by the program, so it is any prefix or a failure.
ProviderList(box, query, maxResults) ==
    LET refs == Refs(box, query)
    IN  {ProviderFailure} \cup
        (IF maxResults >= 1 THEN {ListResponse(Take(refs, maxResults))}
         ELSE {ListResponse(Take(refs, n)) : n \in 0..Len(refs)})

\* What messages.get(id) may answer: a failure or the message.
ProviderGet(box, id) ==
    {ProviderFailure} \cup {box[i] : i \in {j \in 1..Len(box) : box[j].id = id}}

Failed(resp) == "error" \in DOMAIN resp

\* result.get("messages", [])
ListMessagesResult(resp) ==
    IF "messages" \in DOMAIN resp THEN resp.messages ELSE <<>>

\* get_message's return: self._parse_message(message), or the exception.
GetMessageResult(resp, padRule) ==
    IF Failed(resp) THEN [kind |-> "raise", err |-> resp.error]
    ELSE ParseMessage(resp, padRule)

----------------------------------------------------------------------------
(* The tools of GmailAgent *)

ListCap == 20
SearchCap == 10
DetailsWindow == 20
PreviewLen == 100

ToolNames == {"list_recent_emails", "search_emails", "get_email_details"}

\* The list_messages call a tool starts with.
ToolQuery(name, args) == IF name = "search_emails" THEN args.query ELSE ""

\* Tools that pass the caller's count on as it is.
ToolMaxResultsUnclamped(name, args) ==
    IF name = "get_email_details" THEN DetailsWindow ELSE args.count

ToolMaxResults(name, args) ==
    IF name = "list_recent_emails" THEN Min2(args.count, ListCap)
    ELSE IF name = "search_emails" THEN Min2(args.count, SearchCap)
    ELSE DetailsWindow

\* asyncio.gather(*tasks) of a naive implementation: completion order.
GatherByCompletion(done, completion) ==
    [k \in 1..Len(completion) |-> done[completion[k]].email]

\* asyncio.gather(*tasks): the results in the order of the tasks.
GatherResult(done, completion) == [i \in 1..Len(done) |-> done[i].email]

Summaries(emails) ==
    [i \in 1..Len(emails) |->
        [n |-> i, sender |-> emails[i].sender, subject |-> emails[i].subject,
         date |-> emails[i].date, preview |-> Take(emails[i].body, PreviewLen)]]

\* A tool that would answer "no emails" where a fetch failed.
ToolSwallows(err) == [kind |-> "text", text |-> "No emails found."]

\* The tools catch nothing: an exception of the mail client leaves the tool.
ToolRaises(err) == [kind |-> "raise", err |-> err]

\* search_emails when list_messages returned nothing.
NoSearchResults(query) ==
    [kind |-> "text", text |-> "No emails found for query", query |-> query]

\* list_recent_emails once get_recent_emails has returned.
RenderRecent(emails) ==
    IF emails = <<>> THEN [kind |-> "text", text |-> "No emails found."]
    ELSE [kind |-> "text", text |-> "Found recent emails",
          count |-> Len(emails), items |-> Summaries(emails)]

\* search_emails once the fetches have returned.
RenderSearch(query, emails) ==
    [kind |-> "text", text |-> "Found emails matching", query |-> query,
     count |-> Len(emails), items |-> Summaries(emails)]

Details(e) ==
    [kind |-> "text", text |-> "Email Details",
     sender |-> e.sender, recipient |-> e.recipient, subject |-> e.subject,
     date |-> e.date, labels |-> e.labels, body |-> e.body]

IndexNotFound(index, emails) ==
    [kind |-> "text", text |-> "Email index not found. Available",
     index |-> index, first |-> 1, last |-> Len(emails)]

\* A range check that lets index 0 through: emails[0 - 1] is the last email.
RenderDetailsFromZero(index, emails) ==
    IF emails = <<>> \/ index < 0 \/ index > Len(emails)
    THEN IndexNotFound(index, emails)
    ELSE Details(emails[IF index = 0 THEN Len(emails) ELSE index])

\* get_email_details once get_recent_emails(20) has returned.
RenderDetails(index, emails) ==
    IF emails = <<>> \/ index < 1 \/ index > Len(emails)
    THEN IndexNotFound(index, emails)
    ELSE Details(emails[index])

\* The rest of a tool once its emails are there.
RenderTool(name, args, emails) ==
    IF name = "list_recent_emails" THEN RenderRecent(emails)
    ELSE IF name = "search_emails" THEN RenderSearch(args.query, emails)
    ELSE RenderDetails(args.email_index, emails)

----------------------------------------------------------------------------
(* The command-line session (_chat_async) and the agent loop (ReActAgent) *)

\* The budget of an agent built without max_iterations=10: twice as large.
UnsetIterationBudget == 2 * 10

\* ReActAgent(..., max_iterations=10)
MaxIterations == 10

\* Arguments the backend supplies to the tools.
CountArgs == {1, 2, 25}
IndexArgs == 0..(MaxMailbox + 1)

ToolArgs(name) ==
    IF name = "list_recent_emails" THEN {[count |-> c] : c \in CountArgs}
    ELSE IF name = "search_emails"
    THEN {[query |-> q, count |-> c] : q \in Queries, c \in CountArgs}
    ELSE {[email_index |-> k] : k \in IndexArgs}

MailboxSlack == 2   \* the provider holds up to ListCap + MailboxSlack messages
CountSlack == 2     \* counts and indices from -CountSlack to the cap + CountSlack

\* Arguments around the caps, for large mailboxes.
BigToolArgs(name) ==
    IF name = "list_recent_emails"
    THEN {[count |-> c] : c \in (0 - CountSlack)..(ListCap + CountSlack)}
    ELSE IF name = "search_emails"
    THEN {[query |-> q, count |-> c] :
             q \in Queries, c \in (0 - CountSlack)..(SearchCap + CountSlack)}
    ELSE {[email_index |-> k] : k \in (0 - CountSlack)..(DetailsWindow + CountSlack)}

\* With twenty fetches in flight the provider cannot answer in every order
\* and fail in every way.  A script fixes what it does: it answers the
\* fetches in the listing's order or in the reverse of it, and fails the
\* gets of the ids in `lost`.  Without a script (NotRun) it is free.
Schedules == {"listing", "reverse"}
Scripts(box) ==
    {[schedule |-> o, lost |-> l] : o \in Schedules, l \in {{}, {1}, {Len(box)}}}

\* The arguments the backend may supply.
BackendArgs(name) == IF script = NotRun THEN ToolArgs(name) ELSE BigToolArgs(name)

\* Whether the provider now answers the get of the listing's i-th id, and
\* with `resp`.
ProviderAnswers(i, resp) ==
    \/ script = NotRun
    \/ LET pending == {j \in 1..Len(slots) : slots[j] = NotRun}
       IN  /\ i = IF script.schedule = "listing" THEN SetMin(pending)
                  ELSE SetMax(pending)
           /\ Failed(resp) <=> listing[i] \in script.lost

NewTurn == [state |-> "Thinking", iterations |-> 0, toolCalls |-> 0, final |-> FALSE]
IdleTurn == [state |-> "Idle", iterations |-> 0, toolCalls |-> 0, final |-> FALSE]

\* The tool-execution step turns a tool's exception into a tool result.
ObservationOf(out) ==
    IF out.kind = "raise" THEN [kind |-> "error_text", text |-> out.err] ELSE out

Init ==
    /\ tokenStore \in TokenStores
    /\ secretFile \in BOOLEAN
    /\ mailbox \in {Mailbox(n) : n \in 0..MaxMailbox}
    /\ interactive \in BOOLEAN
    /\ session = "start"
    /\ turn = IdleTurn
    /\ observation = NotRun
    /\ ClientIdle /\ CallIdle /\ BodyIdle /\ TasksIdle /\ ScriptIdle

\* get_settings() under _chat_async's first try: Settings() raises when a
\* required setting (the API key) is missing or one is malformed; the
\* configuration error and the setup hint are printed and the command exits
\* before an agent or a mail client exists.
CliLoadSettings ==
    /\ session = "start"
    /\ \E settingsOk \in BOOLEAN :
          session' = IF settingsOk THEN "configured" ELSE "config_exit"
    /\ UNCHANGED <<bodyVars, envVars, clientVars, interactive, turn, observation,
                   callVars, tasks, script>>

\* agent.initialize() under _chat_async's try: FileNotFoundError prints the
\* setup guidance, any other exception the authentication error; both exit.
CliInitialize ==
    /\ session = "configured"
    /\ \E refreshOk \in BOOLEAN, grantOk \in BOOLEAN :
          LET run == Authenticate(tokenStore, secretFile, refreshOk, grantOk)
          IN  /\ ApplyAuth(run)
              /\ session' = IF run.result = "ok" THEN "ready"
                            ELSE IF run.result = "FileNotFoundError" THEN "setup_exit"
                            ELSE "auth_exit"
    /\ UNCHANGED <<bodyVars, secretFile, mailbox, interactive, turn, observation,
                   callVars, tasks, script>>

\* _single_message, or a line of _interactive_mode: agent.chat(message).
UserMessage ==
    /\ session = "ready"
    /\ session' = "turn"
    /\ turn' = NewTurn
    /\ observation' = NotRun
    /\ call' = NotRun /\ listing' = <<>> /\ slots' = <<>> /\ order' = <<>>
    /\ UNCHANGED <<bodyVars, envVars, clientVars, interactive, tasks, script>>

\* "quit" at the prompt of _interactive_mode.
UserQuit ==
    /\ session = "ready"
    /\ interactive
    /\ session' = "quit"
    /\ UNCHANGED <<bodyVars, envVars, clientVars, interactive, turn, observation,
                   callVars, tasks, script>>

\* The tool has finished with `out`; the loop observes it.
FinishTool(out, failure) ==
    /\ call' = [call EXCEPT !.pc = IF out.kind = "raise" THEN "raised" ELSE "returned",
                            !.out = out, !.failure = failure]
    /\ observation' = ObservationOf(out)
    /\ turn' = [turn EXCEPT !.state = "Observing"]

\* Thinking: the backend asks for a tool.  The tool runs to its first
\* suspension: the count is clamped and list_messages submits its request.
BackendRequestsTool ==
    /\ session = "turn"
    /\ turn.state = "Thinking"
    /\ turn.iterations < MaxIterations
    /\ service
    /\ \E name \in ToolNames :
          \E args \in BackendArgs(name) :
             call' = [name |-> name, args |-> args, pc |-> "list",
                      query |-> ToolQuery(name, args),
                      maxResults |-> ToolMaxResults(name, args),
                      emails |-> <<>>, out |-> NotRun, raising |-> "", failure |-> ""]
    /\ turn' = [turn EXCEPT !.state = "ToolDispatch", !.iterations = @ + 1,
                            !.toolCalls = @ + 1]
    /\ listing' = <<>> /\ slots' = <<>> /\ order' = <<>>
    /\ UNCHANGED <<bodyVars, envVars, clientVars, session, interactive, observation,
                   tasks, script>>

\* list_messages returns or raises.  search_emails answers at once when
\* nothing matched; otherwise one get_message per id is started.  (Each
\* get_message finds the session list_messages used, and submits its request.)
ListReturns ==
    /\ call # NotRun
    /\ call.pc = "list"
    /\ \E resp \in ProviderList(mailbox, call.query, call.maxResults) :
          IF Failed(resp)
          THEN /\ FinishTool(ToolRaises(resp.error), resp.error)
               /\ UNCHANGED <<listing, slots, order>>
          ELSE LET refs == ListMessagesResult(resp)
               IN  IF call.name = "search_emails" /\ refs = <<>>
                   THEN /\ FinishTool(NoSearchResults(call.query), "")
                        /\ UNCHANGED <<listing, slots, order>>
                   ELSE /\ listing' = [i \in 1..Len(refs) |-> refs[i].id]
                        /\ slots' = [i \in 1..Len(refs) |-> NotRun]
                        /\ order' = <<>>
                        /\ call' = [call EXCEPT !.pc = "gather"]
                        /\ UNCHANGED <<turn, observation>>
    /\ UNCHANGED <<bodyVars, envVars, clientVars, session, interactive, tasks, script>>

\* One of the pending fetches completes, in any order, with an email or an
\* exception.  The first exception is the one gather will raise; the tool
\* is still suspended then, and other fetches may complete before it runs.
\* gather cancels nothing: when the tool has left with the exception, the
\* fetches still pending complete as well, and nothing reads their outcome.
FetchReturns ==
    /\ call # NotRun
    /\ call.pc \in {"gather", "raised"}
    /\ \E i \in {j \in 1..Len(slots) : slots[j] = NotRun} :
          \E r \in {GetMessageResult(resp, padRule) :
                       resp \in {x \in ProviderGet(mailbox, listing[i]) :
                                    ProviderAnswers(i, x)},
                       padRule \in PadRules} :
             /\ slots' = [slots EXCEPT ![i] = r]
             /\ order' = Append(order, i)
             /\ call' = IF r.kind = "raise" /\ call.raising = ""
                        THEN [call EXCEPT !.raising = r.err] ELSE call
    /\ UNCHANGED <<bodyVars, envVars, clientVars, session, interactive, listing,
                   turn, observation, tasks, script>>

\* The tool resumes from gather with the first exception and, catching
\* nothing, leaves with it.
GatherRaises ==
    /\ call # NotRun
    /\ call.pc = "gather"
    /\ call.raising # ""
    /\ FinishTool(ToolRaises(call.raising), call.raising)
    /\ UNCHANGED <<bodyVars, envVars, clientVars, session, interactive, listing,
                   slots, order, tasks, script>>

\* Every fetch is done: gather returns the emails and the tool renders them.
GatherReturns ==
    /\ call # NotRun
    /\ call.pc = "gather"
    /\ call.raising = ""
    /\ \A i \in 1..Len(slots) : slots[i] # NotRun
    /\ LET emails == GatherResult(slots, order)
           out == RenderTool(call.name, call.args, emails)
       IN  /\ call' = [call EXCEPT !.pc = "returned", !.out = out, !.emails = emails]
           /\ observation' = ObservationOf(out)
           /\ turn' = [turn EXCEPT !.state = "Observing"]
    /\ UNCHANGED <<bodyVars, envVars, clientVars, session, interactive, listing,
                   slots, order, tasks, script>>

\* Observing: the result joins the context of the next Thinking step; the
\* tool's frame is gone.
Observe ==
    /\ session = "turn"
    /\ turn.state = "Observing"
    /\ turn' = [turn EXCEPT !.state = "Thinking"]
    /\ call' = NotRun /\ listing' = <<>> /\ slots' = <<>> /\ order' = <<>>
    /\ UNCHANGED <<bodyVars, envVars, clientVars, session, interactive, observation,
                   tasks, script>>

\* Thinking: the backend gives its final answer.
BackendAnswers ==
    /\ session = "turn"
    /\ turn.state = "Thinking"
    /\ turn.iterations < MaxIterations
    /\ turn' = [turn EXCEPT !.state = "Responding", !.final = TRUE]
    /\ UNCHANGED <<bodyVars, envVars, clientVars, session, interactive, observation,
                   callVars, tasks, script>>

\* Responding: chat() returns str(response); the command line prints it.
Respond ==
    /\ session = "turn"
    /\ turn.state = "Responding"
    /\ turn' = [turn EXCEPT !.state = "Done"]
    /\ session' = IF interactive THEN "ready" ELSE "finished"
    /\ UNCHANGED <<bodyVars, envVars, clientVars, interactive, observation,
                   callVars, tasks, script>>

\* The budget is used up without a final answer: the run raises.  The
\* interactive loop prints the error and prompts again; _single_message
\* does not catch it.
BudgetExhausted ==
    /\ session = "turn"
    /\ turn.state = "Thinking"
    /\ turn.iterations >= MaxIterations
    /\ turn' = [turn EXCEPT !.state = "Failed"]
    /\ session' = IF interactive THEN "ready" ELSE "crashed"
    /\ UNCHANGED <<bodyVars, envVars, clientVars, interactive, observation,
                   callVars, tasks, script>>

Next ==
    \/ CliLoadSettings
    \/ CliInitialize
    \/ UserMessage
    \/ UserQuit
    \/ BackendRequestsTool
    \/ ListReturns
    \/ FetchReturns
    \/ GatherReturns
    \/ GatherRaises
    \/ Observe
    \/ BackendAnswers
    \/ Respond
    \/ BudgetExhausted

Spec == Init /\ [][Next]_vars

----------------------------------------------------------------------------
(* Direct calls of GmailService, as the tests make them: concurrent          *)
(* list_messages and get_message calls on one instance (SpecClient)          *)

MaxTasks == 2       \* calls in flight on the one instance

ClientCalls ==
    {[kind |-> "list_messages", query |-> q, maxResults |-> n] :
        q \in Queries, n \in {2, 10}}
    \cup {[kind |-> "get_message", id |-> i] : i \in 1..2}

NewTask(c) == [api |-> c, pc |-> "new", sessionAtStart |-> FALSE, events |-> <<>>,
               result |-> NotRun]

ClientInit ==
    /\ tokenStore \in TokenStores
    /\ secretFile \in BOOLEAN
    /\ mailbox \in {Mailbox(0), Mailbox(MaxMailbox)}
    /\ service \in BOOLEAN          \* a test may inject a session
    /\ credentials = NoToken
    /\ authRuns = <<>>
    /\ \E n \in 1..MaxTasks :
          tasks \in [1..n -> {NewTask(c) : c \in ClientCalls}]
    /\ BodyIdle /\ AgentIdle /\ CallIdle /\ ScriptIdle

\* The provider request a call submits to the executor.
RequestOf(c) ==
    IF c.kind = "list_messages"
    THEN [request |-> "list", q |-> c.query, maxResults |-> c.maxResults]
    ELSE [request |-> "get", id |-> c.id]

\* A call runs to its first suspension: the session check, authenticate()
\* if there is none, and the request submitted to the executor.
StartTask(t) ==
    /\ tasks[t].pc = "new"
    /\ \E run \in {Authenticate(tokenStore, secretFile, refreshOk, grantOk) :
                      refreshOk \in BOOLEAN, grantOk \in BOOLEAN} :
          /\ EnsureSession(run)
          /\ tasks' = [tasks EXCEPT ![t] =
                [@ EXCEPT
                    !.sessionAtStart = service,
                    !.pc = IF service' THEN "waiting" ELSE "raised",
                    !.result = IF service' THEN NotRun
                               ELSE [kind |-> "raise", err |-> run.result],
                    !.events = (IF Len(authRuns') > Len(authRuns)
                                THEN <<"authenticate">> ELSE <<>>)
                               \o (IF service' THEN <<RequestOf(tasks[t].api)>> ELSE <<>>)]]
    /\ UNCHANGED <<bodyVars, secretFile, mailbox, agentVars, callVars, script>>

\* list_messages up to `await loop.run_in_executor(...)`
ListMessagesStart ==
    \E t \in DOMAIN tasks : tasks[t].api.kind = "list_messages" /\ StartTask(t)

\* get_message up to `await loop.run_in_executor(...)`
GetMessageStart ==
    \E t \in DOMAIN tasks : tasks[t].api.kind = "get_message" /\ StartTask(t)

\* list_messages after the executor: result.get("messages", [])
ListMessagesReturn ==
    /\ \E t \in DOMAIN tasks :
          /\ tasks[t].api.kind = "list_messages"
          /\ tasks[t].pc = "waiting"
          /\ \E resp \in ProviderList(mailbox, tasks[t].api.query,
                                      tasks[t].api.maxResults) :
                tasks' = [tasks EXCEPT ![t] =
                    [@ EXCEPT !.pc = IF Failed(resp) THEN "raised" ELSE "returned",
                              !.result = IF Failed(resp)
                                         THEN [kind |-> "raise", err |-> resp.error]
                                         ELSE [kind |-> "ok",
                                               messages |-> ListMessagesResult(resp)]]]
    /\ UNCHANGED <<bodyVars, envVars, clientVars, agentVars, callVars, script>>

\* get_message after the executor: self._parse_message(message)
GetMessageReturn ==
    /\ \E t \in DOMAIN tasks :
          /\ tasks[t].api.kind = "get_message"
          /\ tasks[t].pc = "waiting"
          /\ \E r \in {GetMessageResult(resp, padRule) :
                          resp \in ProviderGet(mailbox, tasks[t].api.id),
                          padRule \in PadRules} :
                tasks' = [tasks EXCEPT ![t] =
                    [@ EXCEPT !.pc = IF r.kind = "raise" THEN "raised" ELSE "returned",
                              !.result = r]]
    /\ UNCHANGED <<bodyVars, envVars, clientVars, agentVars, callVars, script>>

ClientNext ==
    \/ ListMessagesStart
    \/ GetMessageStart
    \/ ListMessagesReturn
    \/ GetMessageReturn

SpecClient == ClientInit /\ [][ClientNext]_vars

----------------------------------------------------------------------------
(* Whole tool calls against large mailboxes (SpecTools) *)

\* The provider holds no message, one, or about as many as the cap of
\* list_recent_emails.
ToolMailboxSizes == {0, 1} \cup ((ListCap - 1)..(ListCap + MailboxSlack))

\* The session is in a turn and the backend is about to ask for a tool; the
\* provider follows a script.
ToolsInit ==
    /\ mailbox \in {Mailbox(n) : n \in ToolMailboxSizes}
    /\ script \in Scripts(mailbox)
    /\ tokenStore = FreshCreds
    /\ secretFile = TRUE
    /\ service = TRUE
    /\ credentials = FreshCreds
    /\ authRuns = <<Authenticate(FreshCreds, TRUE, TRUE, TRUE)>>
    /\ session = "turn"
    /\ interactive = FALSE
    /\ turn = NewTurn
    /\ observation = NotRun
    /\ BodyIdle /\ CallIdle /\ TasksIdle

\* One tool call, step by step, from its dispatch to its exit.
ToolsNext ==
    \/ BackendRequestsTool
    \/ ListReturns
    \/ FetchReturns
    \/ GatherReturns
    \/ GatherRaises

SpecTools == ToolsInit /\ [][ToolsNext]_vars

----------------------------------------------------------------------------
(* Claims about the normalizer, checked under SpecBody *)

NormalizedBody == normalized.email.body

\* C5: a payload that encodes a text longer than 1000 characters normalizes
\* to a body of exactly 1000 characters, the text's first 1000; a text of
\* 1000 characters or fewer is the body unchanged; no normalized body is
\* longer than 1000 characters.
C5_BodyTruncation ==
    /\ (plainText.known /\ normalized # NotRun) =>
          /\ normalized.kind = "ok"
          /\ IF Len(plainText.text) > 1000
             THEN /\ Len(NormalizedBody) = 1000
                  /\ NormalizedBody = SubSeq(plainText.text, 1, 1000)
             ELSE NormalizedBody = plainText.text
    /\ normalized.kind = "ok" => Len(NormalizedBody) <= 1000

\* A two-byte-per-character text of more than 1000 characters was cut to 1000.
C5_Witness ==
    /\ plainText.known
    /\ Len(plainText.text) > 1000
    /\ plainText.text[1] > 127
    /\ normalized.kind = "ok"
    /\ Len(NormalizedBody) = 1000

\* The body the specification describes: the decoded content of the first
\* part that is exactly text/plain (of the payload itself when single-part),
\* empty when there is none or when its data is absent or undecodable.
SpecifiedBody(payload, padRule) ==
    LET from(holder) ==
            LET d == DecodeData(BodyData(holder), padRule)
            IN  IF d.ok THEN Take(d.text, 1000) ELSE <<>>
    IN  IF "parts" \in DOMAIN payload
        THEN LET plain == {i \in 1..Len(payload.parts) :
                              payload.parts[i].mimeType = "text/plain"}
             IN  IF plain = {} THEN <<>> ELSE from(payload.parts[SetMin(plain)])
        ELSE IF payload.mimeType = "text/plain" THEN from(payload) ELSE <<>>

\* C10: normalization never fails because of the body, and the body is the
\* decoded content of the first text/plain part, or empty when there is no
\* such part or its data is absent or malformed.
C10_BodyNeverFails ==
    normalized # NotRun =>
        /\ normalized.kind = "ok"
        /\ \E padRule \in PadRules :
              NormalizedBody = SpecifiedBody(rawMessage.payload, padRule)

----------------------------------------------------------------------------
(* Claims about the session, the agent loop and the tools, checked under Spec *)

\* C1: when the joint fetches of search_emails or get_recent_emails have
\* returned, the emails are in the order of the ids list_messages returned,
\* whatever the order in which the fetches completed.
C1_ListingOrder ==
    (call # NotRun /\ call.pc = "returned") =>
        /\ Len(call.emails) = Len(listing)
        /\ \A i \in 1..Len(listing) : call.emails[i].id = listing[i]

\* The fetches of a search completed in the reverse of the listing's order.
C1_Witness ==
    /\ call # NotRun
    /\ call.pc = "returned"
    /\ call.name = "search_emails"
    /\ Len(listing) >= 2
    /\ \A k \in 1..Len(order) : order[k] = Len(order) + 1 - k

\* C2: a turn in which the backend never gives a final answer fails after
\* exactly 10 iterations, each of them a tool call: no Thinking step passes
\* the budget, Failed is entered with 10 iterations and 10 tool calls, and
\* Responding and Done are entered only by a final answer.
C2_FailsAtBudget ==
    /\ [](/\ turn.iterations <= 10
          /\ turn.state = "Failed" =>
                (turn.iterations = 10 /\ turn.toolCalls = 10 /\ ~turn.final)
          /\ turn.state \in {"Responding", "Done"} => turn.final)
    /\ [][(turn.state = "Thinking" /\ turn' # turn) =>
             IF turn.iterations = 10 THEN turn'.state = "Failed"
             ELSE \/ turn'.final
                  \/ /\ turn'.state = "ToolDispatch"
                     /\ turn'.iterations = turn.iterations + 1
                     /\ turn'.toolCalls = turn.toolCalls + 1]_vars

\* The turn of a single-message session failed after ten tool calls.
C2_Witness ==
    /\ turn.state = "Failed"
    /\ turn.iterations = 10
    /\ turn.toolCalls = 10
    /\ ~turn.final
    /\ session = "crashed"

\* The stores for which authenticate() needs the interactive grant: no
\* token file, a token file that is invalid (it cannot be loaded, or it loads
\* to a token that is invalid though not expired), or an expired token
\* without a refresh token.
GrantNeeded(store) ==
    \/ ~store.present
    \/ store = BadToken
    \/ Loaded(store) /\ ~store.token /\ ~store.expired
    \/ Loaded(store) /\ store.expired /\ ~store.refresh

\* C7: with the interactive grant needed and the client-secret file missing,
\* authenticate() raises FileNotFoundError, no session becomes active, and
\* the command-line session ends with no turn and no tool call ever made.
\* The code breaks it for a token file that cannot be loaded: the load raises
\* ValueError before the client-secret file is looked for, and the command
\* ends on its "Authentication error" exit instead of the setup guidance.
C7_CredentialsUnavailable ==
    (GrantNeeded(tokenStore) /\ ~secretFile) =>
        /\ ~service
        /\ credentials = NoToken
        /\ turn = IdleTurn /\ call = NotRun /\ observation = NotRun
        /\ session \in {"start", "configured", "config_exit", "setup_exit"}
        /\ session = "setup_exit" =>
              /\ Len(authRuns) = 1
              /\ authRuns[1].result = "FileNotFoundError"
              /\ ~authRuns[1].wrote

\* C8: when a mail-client call raises inside a tool, the loop observes the
\* error as a tool result and the turn goes on; the session ends abnormally
\* before a turn only through a failed authenticate().
C8_ToolErrorsObserved ==
    /\ (call # NotRun /\ call.failure # "") =>
          /\ session = "turn"
          /\ turn.state = "Observing"
          /\ observation = [kind |-> "error_text", text |-> call.failure]
    /\ session \in {"setup_exit", "auth_exit"} =>
          /\ turn = IdleTurn
          /\ authRuns[Len(authRuns)].result # "ok"
    /\ session = "config_exit" => (turn = IdleTurn /\ authRuns = <<>>)

\* A fetch of search_emails failed after another had succeeded.
C8_Witness ==
    /\ call # NotRun
    /\ call.name = "search_emails"
    /\ call.failure = "HttpError"
    /\ Len(order) >= 2
    /\ slots[order[1]].kind = "ok"
    /\ slots[order[2]].kind = "raise"
    /\ observation.kind = "error_text"
    /\ session = "turn"

\* C9: every execution of authenticate() follows the credentials lifecycle:
\* an expired token with a refresh token is refreshed; a token that is
\* absent, invalid or unrefreshable, a failed refresh included, is replaced
\* through the consent flow (given the client-secret file); the token file is
\* written after every refresh or grant and only then; a successful return
\* leaves valid credentials and an active session.
C9_CredentialsLifecycle ==
    \A k \in 1..Len(authRuns) :
        LET r == authRuns[k]
        IN  /\ (Loaded(r.before) /\ r.before.expired /\ r.before.refresh
                  /\ ~Valid(r.before)) => r.refreshTried
            /\ (secretFile /\ (GrantNeeded(r.before) \/ r.result = "RefreshError"))
                  => r.granted
            /\ r.wrote <=> (r.result = "ok" /\ (r.refreshTried \/ r.granted))
            /\ Valid(r.before) => (~r.wrote /\ r.after = r.before)
            /\ r.result = "ok" => (Valid(r.creds) /\ Valid(credentials) /\ service)

----------------------------------------------------------------------------
(* Claims about the tools around their caps, checked under SpecTools *)

Min3(a, b, c) == Min2(a, Min2(b, c))

\* The number of emails a rendered listing shows.
Listed(out) == IF "items" \in DOMAIN out THEN Len(out.items) ELSE 0

\* The tool call of the turn has left, with a text or an exception.
Exited(name) == call # NotRun /\ call.name = name /\ call.pc \in {"returned", "raised"}

\* C3 (as amended): for every count of at least 1, a list_recent_emails(count)
\* that returns lists exactly min(count, 20, P) emails, P being the number of
\* messages the provider holds: never more than min(count, 20).
C3_ListsUpToCap ==
    (/\ Exited("list_recent_emails")
     /\ call.args.count >= 1
     /\ call.out.kind = "text") =>
        /\ Listed(call.out) = Min3(call.args.count, 20, Len(mailbox))
        /\ Listed(call.out) <= Min2(call.args.count, 20)
        /\ Listed(call.out) > 0 => call.out.count = Listed(call.out)

\* More than 20 were asked of a provider that holds more than 20, and the
\* fetches completed in the reverse of the listing's order.
C3_Witness ==
    /\ Exited("list_recent_emails")
    /\ call.args.count > 20
    /\ Len(mailbox) > 20
    /\ call.out.kind = "text"
    /\ Listed(call.out) = 20
    /\ order[1] = 20

\* C3 as stated: the same for every count, those below 1 included.
C3_EveryCount ==
    (/\ Exited("list_recent_emails")
     /\ call.out.kind = "text") =>
        /\ Listed(call.out) = Min3(call.args.count, 20, Len(mailbox))
        /\ Listed(call.out) <= Min2(call.args.count, 20)

\* C4: get_email_details raises only when the mail client does; with N the
\* size of the recent list capped at 20, an index outside 1..N yields the
\* error text naming the range 1-N, and an index inside it the details of
\* the provider's message at that position.
C4_DetailsByIndex ==
    Exited("get_email_details") =>
        LET k == call.args.email_index
            n == Min2(20, Len(mailbox))
            out == call.out
        IN  /\ out.kind = "raise" => (call.failure = "HttpError" /\ out.err = "HttpError")
            /\ out.kind = "text" =>
                  IF k < 1 \/ k > n
                  THEN out = [kind |-> "text",
                              text |-> "Email index not found. Available",
                              index |-> k, first |-> 1, last |-> n]
                  ELSE /\ out.text = "Email Details"
                       /\ out.body = InboxText(k)
                       /\ out.sender = Senders[1 + (k % 2)]
                       /\ out.recipient = "Unknown"
                       /\ out.labels = <<"INBOX">>

\* Index 21 of a provider that holds more than 20: outside the window.
C4_Witness ==
    /\ Exited("get_email_details")
    /\ call.args.email_index = 21
    /\ Len(mailbox) > 20
    /\ call.out.kind = "text"
    /\ call.out.text = "Email index not found. Available"
    /\ call.out.last = 20

----------------------------------------------------------------------------
(* Claims about direct calls of the mail client, checked under SpecClient *)

\* C6: a list_messages call that finds no session runs authenticate() once,
\* first, and submits its list request only after it, and not at all when
\* authenticate() raised; one that finds a
\* session submits the request, with the caller's query and max_results,
\* and never runs authenticate().
C6_AuthenticatesIfNeeded ==
    \A t \in DOMAIN tasks :
        (tasks[t].api.kind = "list_messages" /\ tasks[t].pc # "new") =>
            LET ev == tasks[t].events
                req == [request |-> "list", q |-> tasks[t].api.query,
                        maxResults |-> tasks[t].api.maxResults]
            IN  IF tasks[t].sessionAtStart
                THEN ev = <<req>>
                ELSE /\ Len(ev) \in {1, 2}
                     /\ ev[1] = "authenticate"
                     /\ Len(ev) = 2 => ev[2] = req
                     /\ Len(ev) = 1 <=> (/\ tasks[t].pc = "raised"
                                          /\ tasks[t].result.err # "HttpError")

\* A lone list_messages call found no session, authenticated and returned.
C6_Witness ==
    /\ Len(tasks) = 1
    /\ tasks[1].api.kind = "list_messages"
    /\ ~tasks[1].sessionAtStart
    /\ Len(tasks[1].events) = 2
    /\ tasks[1].events[1] = "authenticate"
    /\ tasks[1].pc = "returned"
    /\ Len(authRuns) = 1

\* The calls that executed authenticate(): those with an event before their
\* request, or with one event and no request because authenticate() raised.
Authenticators ==
    {t \in DOMAIN tasks :
        \/ Len(tasks[t].events) = 2
        \/ /\ Len(tasks[t].events) = 1
           /\ tasks[t].pc = "raised"
           /\ tasks[t].result.err \in {"ValueError", "RefreshError", "FileNotFoundError", "FlowError"}}

\* C11 (as amended): of the calls started concurrently on one instance, at
\* most one executes authenticate() successfully, and none executes it
\* after that: a call executes it exactly when it found no session, which
\* is when every earlier execution raised.  Executions never overlap: each
\* one starts from the token file the previous one left, and is complete,
\* session set or exception raised, before another call makes its check.
C11_OneSuccessfulAuthenticate ==
    /\ \A k \in 1..(Len(authRuns) - 1) :
          /\ authRuns[k].result # "ok"
          /\ authRuns[k + 1].before = authRuns[k].after
    /\ Cardinality(Authenticators) = Len(authRuns)
    /\ \A t \in DOMAIN tasks :
          tasks[t].pc # "new" => (t \in Authenticators <=> ~tasks[t].sessionAtStart)
    /\ authRuns # <<>> =>
          /\ service <=> authRuns[Len(authRuns)].result = "ok"
          /\ tokenStore = authRuns[Len(authRuns)].after
          /\ service => (Valid(credentials) /\ credentials = authRuns[Len(authRuns)].creds)

\* A get_message and a list_messages are both in flight; one of them found
\* no session and authenticated, the other found the session it set.
C11_Witness ==
    /\ Len(tasks) = 2
    /\ {tasks[1].api.kind, tasks[2].api.kind} = {"get_message", "list_messages"}
    /\ tasks[1].pc = "waiting" /\ tasks[2].pc = "waiting"
    /\ Len(authRuns) = 1
    /\ Cardinality(Authenticators) = 1
    /\ \E t \in DOMAIN tasks : tasks[t].sessionAtStart

\* C11 as stated: authenticate() is executed at most once, whatever its
\* outcome.
C11_AtMostOneAuthenticate ==
    /\ Len(authRuns) <= 1
    /\ Cardinality(Authenticators) <= 1

====
